---- MODULE Spec2Model ----
(***************************************************************************)
(* Model of the ZiGate correlation engine (zigpy_zigate/api.py):           *)
(* ZiGate.command, ZiGate.data_received, the four waiter tables, the       *)
(* asyncio lock that serialises commands, and the reconnect supervisor.    *)
(*                                                                         *)
(* A future is a record [st, res]; st is "absent" (no entry / never        *)
(* created), "pending", "done" (set_result was called) or "cancelled"      *)
(* (asyncio.wait_for timed out and cancelled it).  A coroutine suspended   *)
(* on a future resumes in a later step than the one that resolved or       *)
(* cancelled the future, as on the asyncio event loop.                     *)
(***************************************************************************)
EXTENDS Integers, Sequences, FiniteSets, TLC

\* ---- bounds of the model ------------------------------------------------
NumCalls == 2
MaxSqn == 1
MaxBackoffAttempt == 7
MaxReqId == 2

\* ---- program constants ----------------------------------------------------
SUCCESS == 0
STATUS == 32768
CONTROLLER_HEARTBEAT == 32776
VERSION_LIST == 32784
ACK_DATA == 32785
APS_DATA_CONFIRM == 32786
APS_DATA_CONFIRM_FAILED == 34562
ZCL_EVENT == 39321
NETWORK_REMOVE_DEVICE == 38
SEND_RAW_APS_DATA_PACKET == 1328
GET_VERSION == 16
ERASE_PERSISTENT_DATA == 18
UNKNOWN_ID == 32771
HARD_ERROR == 163
TriesMutant == 1 + 1
Tries == 1
CapExponent == 5

\* the response catalog (keys of RESPONSES) as far as the model uses it
RESPONSES ==
    {STATUS, CONTROLLER_HEARTBEAT, VERSION_LIST, ACK_DATA, APS_DATA_CONFIRM,
     APS_DATA_CONFIRM_FAILED, ZCL_EVENT}

None == -1
NoCall == 0
Gone == -2
Calls == 1 .. NumCalls
Sqns == 1 .. MaxSqn
Cmds ==
    {NETWORK_REMOVE_DEVICE, SEND_RAW_APS_DATA_PACKET, GET_VERSION,
     ERASE_PERSISTENT_DATA}
WaitResponses == {VERSION_LIST}

\* the arguments with which the engine's own operations call command()
Args(cmd, ws, wr, wfd, wfa) ==
    [cmd |-> cmd, wait_status |-> ws, wait_response |-> wr,
     wait_for_datasent |-> wfd, wait_for_ack |-> wfa]
\* remove_device, version, erase_persistent_data, and raw_aps_data_request
\* to a broadcast address without expect_reply: no data-sent or ack stage
PlainSites ==
    {Args(NETWORK_REMOVE_DEVICE, TRUE, None, FALSE, FALSE),
     Args(GET_VERSION, TRUE, VERSION_LIST, FALSE, FALSE),
     Args(ERASE_PERSISTENT_DATA, FALSE, None, FALSE, FALSE),
     Args(SEND_RAW_APS_DATA_PACKET, TRUE, None, FALSE, FALSE)}
\* all of them: raw_aps_data_request with every value of expect_reply and
\* of the address
CallSites ==
    PlainSites
    \cup
    {Args(SEND_RAW_APS_DATA_PACKET, TRUE, None, wfd, wfa) :
        wfd \in BOOLEAN, wfa \in BOOLEAN}

\* version, and raw_aps_data_request with expect_reply to a unicast address:
\* between them they await all four stages
StageSites ==
    {Args(GET_VERSION, TRUE, VERSION_LIST, FALSE, FALSE),
     Args(SEND_RAW_APS_DATA_PACKET, TRUE, None, TRUE, TRUE)}

\* a decoded frame: identifier and the fields data[0], data[2], data[3], data[4]
NoFrame == [id |-> 0, d0 |-> 0, d2 |-> 0, d3 |-> 0, d4 |-> 0]
StatusFrames ==
    {[id |-> STATUS, d0 |-> s, d2 |-> c, d3 |-> 0, d4 |-> 0] :
        s \in {SUCCESS, HARD_ERROR}, c \in Cmds}
    \cup
    {[id |-> STATUS, d0 |-> s, d2 |-> c, d3 |-> 1, d4 |-> q] :
        s \in {SUCCESS, HARD_ERROR}, c \in Cmds, q \in Sqns}
ConfirmFrames ==
    {[id |-> APS_DATA_CONFIRM, d0 |-> SUCCESS, d2 |-> 0, d3 |-> 0, d4 |-> q] :
        q \in Sqns}
    \cup
    {[id |-> APS_DATA_CONFIRM_FAILED, d0 |-> HARD_ERROR, d2 |-> 0, d3 |-> 0,
      d4 |-> q] : q \in Sqns}
AckFrames ==
    {[id |-> ACK_DATA, d0 |-> s, d2 |-> 0, d3 |-> 0, d4 |-> q] :
        s \in {SUCCESS, HARD_ERROR}, q \in Sqns}
OtherFrames ==
    {[id |-> i, d0 |-> 0, d2 |-> 0, d3 |-> 0, d4 |-> 0] :
        i \in {VERSION_LIST, CONTROLLER_HEARTBEAT, ZCL_EVENT, UNKNOWN_ID}}
Frames == StatusFrames \cup ConfirmFrames \cup AckFrames \cup OtherFrames
\* the frames of commands that cause no Zigbee traffic: no sqn
PlainFrames == {f \in StatusFrames : f.d3 = 0} \cup OtherFrames

AbsentFut == [st |-> "absent", res |-> NoFrame]
PendingFut == [st |-> "pending", res |-> NoFrame]
DoneFut(f) == [st |-> "done", res |-> f]
CancelledFut == [st |-> "cancelled", res |-> NoFrame]

VARIABLES
    uart,                       \* self._uart: TRUE when a transport is held
    app,                        \* self._app: TRUE when a callback is registered
    awaiting,                   \* self._awaiting: response id -> owning call
    status_awaiting,            \* self._status_awaiting: command id -> owning call
    status_datasent_awaiting,   \* self._status_datasent_awaiting: sqn -> future
    status_ack_awaiting,        \* self._status_ack_awaiting: sqn -> future
    lock,                       \* self._lock: the call holding it, or NoCall
    lock_waiters,               \* calls suspended in self._lock.acquire(), FIFO
    call,                       \* the command() coroutines
    conn_lost_task,             \* self._conn_lost_task and its loop variables
    superseded, \* reconnect tasks replaced in self._conn_lost_task, not finished
    close_called, \* history: close() was called, and connect() not since
    pending,      \* ControllerApplication._pending: the request ids in it
    request       \* the last call of ControllerApplication._request

vars == <<uart, app, awaiting, status_awaiting, status_datasent_awaiting,
          status_ack_awaiting, lock, lock_waiters, call, conn_lost_task,
          superseded, close_called, pending, request>>

tables == <<awaiting, status_awaiting, status_datasent_awaiting,
            status_ack_awaiting>>

IdleCall ==
    [pc |-> "idle", cmd |-> 0, wait_status |-> FALSE, wait_response |-> None,
     wait_for_datasent |-> FALSE, wait_for_ack |-> FALSE,
     tries |-> 0, status |-> 0, sqn |-> None, result |-> NoFrame,
     status_fut |-> AbsentFut, response_fut |-> AbsentFut,
     error |-> "none", sent |-> 0, released |-> 0,
     ds0 |-> {}, ack0 |-> {}]

\* no call of _request has been made
NoRequest == [pc |-> "none", status |-> 0, req_id |-> 0]

NoTask == [pc |-> "none", attempt |-> 0, wait |-> 0, prev |-> 0]

\* ZiGate.new: __init__, connect, set_application (lines 179-199)
Init ==
    /\ uart = TRUE
    /\ app = TRUE
    /\ awaiting = [r \in WaitResponses |-> NoCall]
    /\ status_awaiting = [c \in Cmds |-> NoCall]
    /\ status_datasent_awaiting = [q \in Sqns |-> AbsentFut]
    /\ status_ack_awaiting = [q \in Sqns |-> AbsentFut]
    /\ lock = NoCall
    /\ lock_waiters = <<>>
    /\ call = [p \in {1} |-> IdleCall]
    /\ conn_lost_task = NoTask
    /\ superseded = <<>>
    /\ close_called = FALSE
    /\ pending = {}
    /\ request = NoRequest

\* the keys of a table of futures
Keys(table) == {k \in DOMAIN table : table[k].st # "absent"}

\* ---- asyncio.Lock: acquire() returns at once only when the lock is free
\* ---- and nobody is queued; otherwise the caller queues (api.py:302)
CanAcquireMutant == TRUE
CanAcquire == lock = NoCall /\ lock_waiters = <<>>

\* ---- ZiGate.command -------------------------------------------------------
\* The operators below work on a record m: the coroutine's locals (m.c), the
\* four tables (m.aw, m.st, m.ds, m.ack), the lock holder (m.lk) and the id
\* of the coroutine (m.p).  Each one runs the code from one place up to the
\* next await that really suspends, or up to the end of the call.

RaiseMutant(m, err) == [m EXCEPT !.c.pc = "done", !.c.error = err]
\* lines 312-313, 351-352, 370-371, 389-390, 408-409: release, then raise
Raise(m, err) ==
    [m EXCEPT !.lk = NoCall, !.c.pc = "done", !.c.error = err,
              !.c.released = @ + 1]

ReturnMutant(m) == [m EXCEPT !.c.pc = "done"]
\* lines 410-415: release and return result
Return(m) ==
    [m EXCEPT !.lk = NoCall, !.c.pc = "done", !.c.released = @ + 1]

\* an exception command() does not catch: the lock stays held
Escape(m, err) == [m EXCEPT !.c.pc = "done", !.c.error = err]

Suspend(m, at) == [m EXCEPT !.c.pc = at]

NotRunningMutant == FALSE
\* line 310: connection was lost
NotRunning == uart = FALSE

RECURSIVE LoopTop(_)

\* lines 404-409 and 347-352, 366-371, 385-390
RetryOrRaise(m, err) ==
    IF m.c.tries > 0 THEN LoopTop(m) ELSE Raise(m, err)

\* lines 396-398: the response future has a result
GotResponse(m) ==
    LoopTop([m EXCEPT !.c.result = m.c.response_fut.res])

ResponseTimeoutMutant(m) == RetryOrRaise(m, "NoStatusError")
\* lines 399-409: the wait for the response timed out
ResponseTimeout(m) ==
    LET wr == m.c.wait_response
        aw1 == IF m.aw[wr] # NoCall THEN [m.aw EXCEPT ![wr] = NoCall] ELSE m.aw
    IN RetryOrRaise([m EXCEPT !.aw = aw1], "NoResponseError")

StageResponseMutant(m) ==
    IF m.c.wait_response # None
    THEN IF m.c.response_fut.st = "done"
         THEN GotResponse(m)
         ELSE Suspend(m, "response")
    ELSE LoopTop(m)
\* lines 392-395
StageResponse(m) ==
    IF m.c.status = SUCCESS /\ m.c.wait_response # None
    THEN IF m.c.response_fut.st = "done"
         THEN GotResponse(m)
         ELSE Suspend(m, "response")
    ELSE LoopTop(m)

\* lines 377-381: the ack future has a result
GotAck(m) ==
    LET q == m.c.sqn
        fut == m.ack[q]
    IN StageResponse([m EXCEPT !.ack[q] = AbsentFut,
                               !.c.result = fut.res,
                               !.c.sqn = fut.res.d4,
                               !.c.status = fut.res.d0])

\* lines 382-390: the wait for the ack timed out
AckTimeout(m) ==
    LET q == m.c.sqn
        ack1 == IF m.ack[q].st # "absent"
                THEN [m.ack EXCEPT ![q] = AbsentFut] ELSE m.ack
    IN RetryOrRaise([m EXCEPT !.ack = ack1], "NoStatusError")

StageAckMutant(m) == StageResponse(m)
\* lines 373-376
StageAck(m) ==
    IF m.c.status = SUCCESS /\ m.c.wait_for_ack /\ m.c.sqn # None
    THEN IF m.ack[m.c.sqn].st = "done"
         THEN GotAck(m)
         ELSE Suspend(m, "ack")
    ELSE StageResponse(m)

\* lines 357-361: the data-sent future has a result
GotDatasent(m) ==
    LET q == m.c.sqn
        fut == m.ds[q]
    IN StageAck([m EXCEPT !.ds[q] = AbsentFut,
                          !.c.result = fut.res,
                          !.c.sqn = fut.res.d4,
                          !.c.status = fut.res.d0])

\* lines 362-371: the wait for the data-sent confirmation timed out
DatasentTimeout(m) ==
    LET q == m.c.sqn
        ds1 == IF m.ds[q].st # "absent"
               THEN [m.ds EXCEPT ![q] = AbsentFut] ELSE m.ds
    IN RetryOrRaise([m EXCEPT !.ds = ds1], "NoStatusError")

\* lines 353-356
StageDatasent(m) ==
    IF m.c.status = SUCCESS /\ m.c.wait_for_datasent /\ m.c.sqn # None
    THEN IF m.ds[m.c.sqn].st = "done"
         THEN GotDatasent(m)
         ELSE Suspend(m, "datasent")
    ELSE StageAck(m)

\* line 331: the status frame carries a sqn
SqnExist(f) == f.d3 # 0

\* lines 327-339: the status future has a result
GotStatus(m) ==
    LET f == m.c.status_fut.res
        m1 == [m EXCEPT !.c.result = f, !.c.status = f.d0]
    IN IF SqnExist(f)
       THEN LET q == f.d4
            IN IF m.ds[q].st = "absent" \/ m.ack[q].st = "absent"
               THEN Escape(m1, "KeyError")
               ELSE StageDatasent(
                      [m1 EXCEPT !.c.sqn = q,
                                 !.ds[q] = IF m.c.wait_for_datasent
                                           THEN @ ELSE AbsentFut,
                                 !.ack[q] = IF m.c.wait_for_ack
                                            THEN @ ELSE AbsentFut])
       ELSE StageDatasent(m1)

\* lines 340-352: the wait for the status timed out
StatusTimeout(m) ==
    LET cmd == m.c.cmd
        wr == m.c.wait_response
        st1 == IF m.st[cmd] # NoCall THEN [m.st EXCEPT ![cmd] = NoCall] ELSE m.st
        aw1 == IF m.c.response_fut.st # "absent" /\ wr # None /\ m.aw[wr] # NoCall
               THEN [m.aw EXCEPT ![wr] = NoCall] ELSE m.aw
    IN RetryOrRaise([m EXCEPT !.st = st1, !.aw = aw1], "NoStatusError")

\* lines 323-326
StageStatus(m) ==
    IF m.c.wait_status THEN Suspend(m, "status") ELSE StageDatasent(m)

\* lines 314-322: register the waiters and send
Attempt(m) ==
    LET ws == m.c.wait_status
        wr == m.c.wait_response
    IN StageStatus(
         [m EXCEPT !.st = IF ws THEN [@ EXCEPT ![m.c.cmd] = m.p] ELSE @,
                   !.c.status_fut = IF ws THEN PendingFut ELSE @,
                   !.aw = IF wr # None THEN [@ EXCEPT ![wr] = m.p] ELSE @,
                   !.c.response_fut = IF wr # None THEN PendingFut ELSE @,
                   !.c.status = SUCCESS,
                   !.c.tries = @ - 1,
                   !.c.sent = @ + 1])

\* lines 309-313 and 410-415: the head of the while loop and what follows it
LoopTop(m) ==
    IF m.c.tries > 0
    THEN IF NotRunning THEN Raise(m, "CommandError") ELSE Attempt(m)
    ELSE Return(m)

\* lines 302-308: the lock is acquired; the locals are initialised
Acquired(p, c) ==
    LoopTop([p |-> p,
             c |-> [c EXCEPT !.tries = Tries, !.result = NoFrame,
                             !.status_fut = AbsentFut,
                             !.response_fut = AbsentFut,
                             !.sqn = None, !.status = 0,
                             !.ds0 = Keys(status_datasent_awaiting),
                             !.ack0 = Keys(status_ack_awaiting)],
             st |-> status_awaiting, aw |-> awaiting,
             ds |-> status_datasent_awaiting, ack |-> status_ack_awaiting,
             lk |-> p])

\* the coroutine's machine record in the current state
Machine(p) ==
    [p |-> p, c |-> call[p], st |-> status_awaiting, aw |-> awaiting,
     ds |-> status_datasent_awaiting, ack |-> status_ack_awaiting,
     lk |-> lock]

\* write a machine record back to the state
Commit(m) ==
    /\ call' = [call EXCEPT ![m.p] = m.c]
    /\ status_awaiting' = m.st
    /\ awaiting' = m.aw
    /\ status_datasent_awaiting' = m.ds
    /\ status_ack_awaiting' = m.ack
    /\ lock' = m.lk

\* the locals of a call of command() with arguments a
NewCall(a) ==
    [IdleCall EXCEPT !.cmd = a.cmd, !.wait_status = a.wait_status,
                     !.wait_response = a.wait_response,
                     !.wait_for_datasent = a.wait_for_datasent,
                     !.wait_for_ack = a.wait_for_ack]

\* a call that has ended stays "done" for one step, in which its caller
\* takes the result or the exception (Returned); nothing else runs before
Quiet == \A p \in DOMAIN call : call[p].pc # "done"

\* command() is called (line 298) and reaches its first suspension
Command(p, a) ==
    /\ Quiet
    /\ call[p].pc = "idle"
    /\ \A q \in DOMAIN call : q < p => call[q].pc # "idle"
    /\ IF CanAcquire
       THEN /\ Commit(Acquired(p, NewCall(a)))
            /\ UNCHANGED lock_waiters
       ELSE /\ call' = [call EXCEPT ![p] = [NewCall(a) EXCEPT !.pc = "queued"]]
            /\ lock_waiters' = Append(lock_waiters, p)
            /\ UNCHANGED <<tables, lock>>
    /\ UNCHANGED <<uart, app, conn_lost_task, superseded, close_called,
                   pending, request>>

\* a call queued on the lock is woken by release() and takes the lock
LockGranted(p) ==
    /\ Quiet
    /\ call[p].pc = "queued"
    /\ lock = NoCall
    /\ lock_waiters # <<>>
    /\ Head(lock_waiters) = p
    /\ Commit(Acquired(p, call[p]))
    /\ lock_waiters' = Tail(lock_waiters)
    /\ UNCHANGED <<uart, app, conn_lost_task, superseded, close_called,
                   pending, request>>

\* the future a suspended call is waiting for
AwaitedFut(p) ==
    CASE call[p].pc = "status" -> call[p].status_fut
      [] call[p].pc = "datasent" -> status_datasent_awaiting[call[p].sqn]
      [] call[p].pc = "ack" -> status_ack_awaiting[call[p].sqn]
      [] call[p].pc = "response" -> call[p].response_fut
      [] OTHER -> AbsentFut

Suspended(p) == call[p].pc \in {"status", "datasent", "ack", "response"}

\* asyncio.wait_for: the timeout of the stage fires and cancels the future;
\* the entry stays in its table until the coroutine runs again
Timeout(p) ==
    /\ Quiet
    /\ Suspended(p)
    /\ AwaitedFut(p).st = "pending"
    /\ CASE call[p].pc = "status" ->
              /\ call' = [call EXCEPT ![p].status_fut = CancelledFut]
              /\ UNCHANGED <<status_datasent_awaiting, status_ack_awaiting>>
         [] call[p].pc = "response" ->
              /\ call' = [call EXCEPT ![p].response_fut = CancelledFut]
              /\ UNCHANGED <<status_datasent_awaiting, status_ack_awaiting>>
         [] call[p].pc = "datasent" ->
              /\ status_datasent_awaiting' =
                    [status_datasent_awaiting EXCEPT ![call[p].sqn] = CancelledFut]
              /\ UNCHANGED <<call, status_ack_awaiting>>
         [] call[p].pc = "ack" ->
              /\ status_ack_awaiting' =
                    [status_ack_awaiting EXCEPT ![call[p].sqn] = CancelledFut]
              /\ UNCHANGED <<call, status_datasent_awaiting>>
    /\ UNCHANGED <<uart, app, awaiting, status_awaiting, lock, lock_waiters,
                   conn_lost_task, superseded, close_called, pending,
                   request>>

\* the coroutine runs again after its future was resolved or cancelled
Resumed(p) ==
    LET m == Machine(p)
        done == AwaitedFut(p).st = "done"
    IN CASE call[p].pc = "status" ->
              IF done THEN GotStatus(m) ELSE StatusTimeout(m)
         [] call[p].pc = "datasent" ->
              IF done THEN GotDatasent(m) ELSE DatasentTimeout(m)
         [] call[p].pc = "ack" ->
              IF done THEN GotAck(m) ELSE AckTimeout(m)
         [] call[p].pc = "response" ->
              IF done THEN GotResponse(m) ELSE ResponseTimeout(m)

Resume(p) ==
    /\ Quiet
    /\ Suspended(p)
    /\ AwaitedFut(p).st \in {"done", "cancelled"}
    /\ Commit(Resumed(p))
    /\ UNCHANGED <<uart, app, lock_waiters, conn_lost_task, superseded,
                   close_called, pending, request>>

\* the caller of command() has the result or the exception; the coroutine is
\* gone, and a future it left in a table is a future nobody awaits
Orphaned(table, p) ==
    [k \in DOMAIN table |-> IF table[k] = p THEN Gone ELSE table[k]]

Returned(p) ==
    /\ call[p].pc = "done"
    /\ call' = [call EXCEPT ![p] = IdleCall]
    /\ awaiting' = Orphaned(awaiting, p)
    /\ status_awaiting' = Orphaned(status_awaiting, p)
    /\ UNCHANGED <<uart, app, status_datasent_awaiting, status_ack_awaiting,
                   lock, lock_waiters, conn_lost_task, superseded,
                   close_called, pending, request>>

\* ---- ZiGate.data_received ---------------------------------------------------
\* A dispatch works on a record d: the tables (d.st, d.aw, d.ds, d.ack), the
\* coroutines whose futures it resolves (d.cl), the number of futures it
\* resolved, whether InvalidStateError left data_received (d.raised), and
\* how often the application callback was called.

\* Future.set_result raises InvalidStateError unless the future is pending
CanSetResult(fut) == fut.st = "pending"

CompanionWaitersMutant(d, q) == [d EXCEPT !.ds[q] = PendingFut]
\* lines 276-277: the waiters of a sqn
CompanionWaiters(d, q) ==
    [d EXCEPT !.ds[q] = PendingFut, !.ack[q] = PendingFut]

PopStatusMutant(d, cmd) == d
\* line 274
PopStatus(d, cmd) == [d EXCEPT !.st[cmd] = NoCall]

\* lines 267-278
DispatchStatus(f, d) ==
    IF f.id = STATUS /\ d.st[f.d2] # NoCall
    THEN LET o == d.st[f.d2]
             sqn_aps == IF f.d3 # 0 THEN f.d4 ELSE None
             d1 == PopStatus(d, f.d2)
             d2 == IF sqn_aps # None THEN CompanionWaiters(d1, sqn_aps) ELSE d1
         IN IF o = Gone
            THEN [d2 EXCEPT !.resolved = @ + 1]
            ELSE IF CanSetResult(d.cl[o].status_fut)
            THEN [d2 EXCEPT !.cl[o].status_fut = DoneFut(f),
                            !.resolved = @ + 1]
            ELSE [d2 EXCEPT !.raised = TRUE]
    ELSE d

DispatchDatasentMutant(f, d) ==
    IF ~d.raised /\ f.id \in {APS_DATA_CONFIRM, APS_DATA_CONFIRM_FAILED}
    THEN [d EXCEPT !.ds = [q \in DOMAIN d.ds |->
                              IF d.ds[q].st = "pending"
                              THEN DoneFut(f) ELSE d.ds[q]],
                   !.resolved = @ + 1]
    ELSE d
\* lines 279-283
DispatchDatasent(f, d) ==
    IF ~d.raised /\ f.id \in {APS_DATA_CONFIRM, APS_DATA_CONFIRM_FAILED}
       /\ d.ds[f.d4].st # "absent"
    THEN IF CanSetResult(d.ds[f.d4])
         THEN [d EXCEPT !.ds[f.d4] = DoneFut(f), !.resolved = @ + 1]
         ELSE [d EXCEPT !.raised = TRUE]
    ELSE d

\* lines 284-288
DispatchAck(f, d) ==
    IF ~d.raised /\ f.id = ACK_DATA /\ d.ack[f.d4].st # "absent"
    THEN IF CanSetResult(d.ack[f.d4])
         THEN [d EXCEPT !.ack[f.d4] = DoneFut(f), !.resolved = @ + 1]
         ELSE [d EXCEPT !.raised = TRUE]
    ELSE d

\* lines 291-295
DispatchResponse(f, d) ==
    IF ~d.raised /\ f.id \in DOMAIN d.aw /\ d.aw[f.id] # NoCall
    THEN LET o == d.aw[f.id]
             d1 == [d EXCEPT !.aw[f.id] = NoCall]
         IN IF o = Gone
            THEN [d1 EXCEPT !.resolved = @ + 1]
            ELSE IF CanSetResult(d.cl[o].response_fut)
            THEN [d1 EXCEPT !.cl[o].response_fut = DoneFut(f),
                            !.resolved = @ + 1]
            ELSE [d1 EXCEPT !.raised = TRUE]
    ELSE d

\* lines 528-531: an exception of the application's handler is caught
CallbackEscapes(cbRaises) == FALSE

\* lines 296, 525-531
HandleCallback(d, cbRaises) ==
    IF ~d.raised /\ app
    THEN [d EXCEPT !.forwarded = @ + 1, !.raised = CallbackEscapes(cbRaises)]
    ELSE d

InCatalogMutant(id) == TRUE
\* line 263
InCatalog(id) == id \in RESPONSES

\* lines 260-296: data_received run on the tables and coroutines of d
DispatchFrom(f, cbRaises, d) ==
    LET d0 == [d EXCEPT !.resolved = 0, !.raised = FALSE, !.forwarded = 0]
    IN IF ~InCatalog(f.id)
       THEN d0
       ELSE HandleCallback(
              DispatchResponse(f,
                DispatchAck(f, DispatchDatasent(f, DispatchStatus(f, d0)))),
              cbRaises)

\* the tables and coroutines of the current state
Current ==
    [st |-> status_awaiting, aw |-> awaiting,
     ds |-> status_datasent_awaiting, ack |-> status_ack_awaiting,
     cl |-> call, resolved |-> 0, raised |-> FALSE, forwarded |-> 0]

Dispatch(f, cbRaises) == DispatchFrom(f, cbRaises, Current)

\* application.py lines 193-209: the callback of ControllerApplication
\* drops the pending request whose tag a failed data-sent confirmation names
HandleFrameFailure(f, d, pend) ==
    IF d.forwarded = 1 /\ f.id = APS_DATA_CONFIRM_FAILED
    THEN pend \ {f.d4}
    ELSE pend

\* write the tables and coroutines of a dispatch back to the state
Deliver(f, d) ==
    /\ pending' = HandleFrameFailure(f, d, pending)
    /\ status_awaiting' = d.st
    /\ awaiting' = d.aw
    /\ status_datasent_awaiting' = d.ds
    /\ status_ack_awaiting' = d.ack
    /\ call' = d.cl

\* the transport delivers a decoded frame
DataReceived(f, cbRaises) ==
    /\ Quiet
    /\ uart
    /\ Deliver(f, Dispatch(f, cbRaises))
    /\ UNCHANGED <<uart, app, lock, lock_waiters, conn_lost_task, superseded,
                   close_called, request>>

\* ---- connection ---------------------------------------------------------------
TaskActive == conn_lost_task.pc \in {"start", "connecting", "sleeping"}

Min(a, b) == IF a < b THEN a ELSE b

BackoffMutant(attempt) == 2 ^ attempt
\* line 231
Backoff(attempt) == 2 ^ Min(attempt, CapExponent)

\* ZiGate.connect called by the owner of the engine (lines 201-203)
Connect ==
    /\ Quiet
    /\ ~uart
    /\ ~TaskActive
    /\ uart' = TRUE
    /\ close_called' = FALSE
    /\ UNCHANGED <<app, tables, lock, lock_waiters, call, conn_lost_task,
                   superseded, pending, request>>

CloseFromMutant(u) == [uart |-> FALSE, closed |-> 1]
\* lines 248-250: the state of self._uart after close() and the number of
\* calls of the handle's close()
CloseFrom(u) ==
    IF u THEN [uart |-> FALSE, closed |-> 1] ELSE [uart |-> u, closed |-> 0]

\* ZiGate.close (lines 247-250)
Close ==
    /\ Quiet
    /\ uart' = CloseFrom(uart).uart
    /\ close_called' = TRUE
    /\ UNCHANGED <<app, tables, lock, lock_waiters, call, conn_lost_task,
                   superseded, pending, request>>

CancelTaskMutant(t) == [pc |-> t.pc, cancelled |-> FALSE]
\* line 214: Task.cancel; the task sees CancelledError when it runs next
CancelTask(t) == [pc |-> t.pc, cancelled |-> TRUE]

\* lines 213-214: the task of the previous loss, when it has not finished
Supersede(t, old) == IF TaskActive THEN Append(old, CancelTask(t)) ELSE old

ConnectionLostMutant(duringReopen) ==
    /\ Quiet
    /\ \/ uart
       \/ duringReopen /\ conn_lost_task.pc = "connecting"
    /\ uart' = FALSE
    /\ lock' = NoCall
    /\ superseded' = Supersede(conn_lost_task, superseded)
    /\ conn_lost_task' = [pc |-> "start", attempt |-> 1, wait |-> 0, prev |-> 0]
    /\ UNCHANGED <<app, tables, lock_waiters, call, close_called, pending,
                   request>>
\* ZiGate.connection_lost (lines 205-215): the transport that is held
\* reports the loss, or (duringReopen) the transport that a reconnect attempt
\* is opening
ConnectionLost(duringReopen) ==
    /\ Quiet
    /\ \/ uart
       \/ duringReopen /\ conn_lost_task.pc = "connecting"
    /\ uart' = FALSE
    /\ superseded' = Supersede(conn_lost_task, superseded)
    /\ conn_lost_task' = [pc |-> "start", attempt |-> 1, wait |-> 0, prev |-> 0]
    /\ UNCHANGED <<app, tables, lock, lock_waiters, call, close_called,
                   pending, request>>

UnwindMutant ==
    /\ Quiet
    /\ superseded # <<>>
    /\ superseded' = Tail(superseded)
    /\ uart' = TRUE
    /\ UNCHANGED <<app, tables, lock, lock_waiters, call, conn_lost_task,
                   close_called, pending, request>>
\* a replaced task runs again (lines 217-222): CancelledError ends it where it
\* was suspended; a task that was not cancelled goes on and installs the
\* transport it was opening (line 203)
Unwind ==
    /\ Quiet
    /\ superseded # <<>>
    /\ superseded' = Tail(superseded)
    /\ uart' = IF Head(superseded).cancelled THEN uart ELSE TRUE
    /\ UNCHANGED <<app, tables, lock, lock_waiters, call, conn_lost_task,
                   close_called, pending, request>>

\* _reconnect_till_done reaches connect() (lines 226-228, 201-203): the
\* assertion fails when a transport is held.  The first step of a new task
\* is scheduled after the wake-up of the task it replaced
Reopen ==
    /\ Quiet
    /\ superseded = <<>>
    /\ conn_lost_task.pc \in {"start", "sleeping"}
    /\ conn_lost_task' =
          [conn_lost_task EXCEPT !.pc = IF uart THEN "failed" ELSE "connecting"]
    /\ UNCHANGED <<uart, app, tables, lock, lock_waiters, call, superseded,
                   close_called, pending, request>>

ReopenOkMutant ==
    /\ Quiet
    /\ conn_lost_task.pc = "connecting"
    /\ conn_lost_task' = NoTask
    /\ UNCHANGED <<uart, app, tables, lock, lock_waiters, call, superseded,
                   close_called, pending, request>>
\* the reopen attempt succeeds (lines 203, 229, 241-245); the task is
\* finished, which the engine does not tell from having no task (line 213)
ReopenOk ==
    /\ Quiet
    /\ conn_lost_task.pc = "connecting"
    /\ uart' = TRUE
    /\ conn_lost_task' = NoTask
    /\ UNCHANGED <<app, tables, lock, lock_waiters, call, superseded,
                   close_called, pending, request>>

\* the reopen attempt fails or times out (lines 230-239)
ReopenFailed(bound) ==
    /\ Quiet
    /\ conn_lost_task.pc = "connecting"
    /\ conn_lost_task.attempt <= bound
    /\ conn_lost_task' =
          [conn_lost_task EXCEPT !.pc = "sleeping",
                                 !.wait = Backoff(conn_lost_task.attempt),
                                 !.prev = conn_lost_task.wait,
                                 !.attempt = @ + 1]
    /\ UNCHANGED <<uart, app, tables, lock, lock_waiters, call, superseded,
                   close_called, pending, request>>

\* ---- specifications ---------------------------------------------------------
\* Spec: one caller issues commands one after the other, with every argument
\* combination of the call sites; frames arrive, stage timeouts fire, the
\* connection is lost and reopened.
Next ==
    \/ \E p \in DOMAIN call, a \in CallSites : Command(p, a)
    \/ \E p \in DOMAIN call : Returned(p)
    \/ \E p \in DOMAIN call : Timeout(p)
    \/ \E p \in DOMAIN call : Resume(p)
    \/ \E f \in Frames, cbRaises \in BOOLEAN : DataReceived(f, cbRaises)
    \/ ConnectionLost(FALSE)
    \/ Reopen
    \/ ReopenOk

Spec == Init /\ [][Next]_vars

\* SpecConcurrent: NumCalls callers call command() concurrently, from the call
\* sites without data-sent and ack stage, on a connection that stays up.
InitConcurrent ==
    /\ uart = TRUE
    /\ app = TRUE
    /\ awaiting = [r \in WaitResponses |-> NoCall]
    /\ status_awaiting = [c \in Cmds |-> NoCall]
    /\ status_datasent_awaiting = [q \in Sqns |-> AbsentFut]
    /\ status_ack_awaiting = [q \in Sqns |-> AbsentFut]
    /\ lock = NoCall
    /\ lock_waiters = <<>>
    /\ call = [p \in Calls |-> IdleCall]
    /\ conn_lost_task = NoTask
    /\ superseded = <<>>
    /\ close_called = FALSE
    /\ pending = {}
    /\ request = NoRequest

NextConcurrent ==
    \/ \E p \in DOMAIN call, a \in PlainSites : Command(p, a)
    \/ \E p \in DOMAIN call : LockGranted(p)
    \/ \E p \in DOMAIN call : Returned(p)
    \/ \E p \in DOMAIN call : Timeout(p)
    \/ \E p \in DOMAIN call : Resume(p)
    \/ \E f \in Frames, cbRaises \in BOOLEAN : DataReceived(f, cbRaises)

SpecConcurrent == InitConcurrent /\ [][NextConcurrent]_vars

\* SpecReconnect: the reconnect supervisor with failing reopen attempts, losses
\* reported while a reconnect loop runs, close and connect, and one caller of the call sites without data-sent and ack
\* stage, whose status frames carry no sqn.
NextReconnect ==
    \/ \E p \in DOMAIN call, a \in PlainSites : Command(p, a)
    \/ \E p \in DOMAIN call : Returned(p)
    \/ \E p \in DOMAIN call : Timeout(p)
    \/ \E p \in DOMAIN call : Resume(p)
    \/ \E f \in PlainFrames, cbRaises \in BOOLEAN : DataReceived(f, cbRaises)
    \/ Connect
    \/ Close
    \/ ConnectionLost(TRUE)
    \/ Unwind
    \/ Reopen
    \/ ReopenOk
    \/ ReopenFailed(MaxBackoffAttempt)

SpecReconnect == Init /\ [][NextReconnect]_vars

\* SpecRecover: the engine from the moment connection_lost has run for the
\* first time (lines 205-215), as SpecReconnect without close and connect and
\* without a loss reported while a reconnect loop is running.  The event loop
\* runs every task that is ready (the reconnect loop goes on after its sleep,
\* the caller of command() takes its result), and a reopen attempt that is
\* made again and again succeeds in the end.
InitLost ==
    /\ uart = FALSE
    /\ app = TRUE
    /\ awaiting = [r \in WaitResponses |-> NoCall]
    /\ status_awaiting = [c \in Cmds |-> NoCall]
    /\ status_datasent_awaiting = [q \in Sqns |-> AbsentFut]
    /\ status_ack_awaiting = [q \in Sqns |-> AbsentFut]
    /\ lock = NoCall
    /\ lock_waiters = <<>>
    /\ call = [p \in {1} |-> IdleCall]
    /\ conn_lost_task = [pc |-> "start", attempt |-> 1, wait |-> 0, prev |-> 0]
    /\ superseded = <<>>
    /\ close_called = FALSE
    /\ pending = {}
    /\ request = NoRequest

NextRecover ==
    \/ \E p \in DOMAIN call, a \in PlainSites : Command(p, a)
    \/ \E p \in DOMAIN call : Returned(p)
    \/ \E p \in DOMAIN call : Timeout(p)
    \/ \E p \in DOMAIN call : Resume(p)
    \/ \E f \in PlainFrames, cbRaises \in BOOLEAN : DataReceived(f, cbRaises)
    \/ ConnectionLost(FALSE)
    \/ Reopen
    \/ ReopenOk
    \/ ReopenFailed(MaxBackoffAttempt)

SpecRecover ==
    /\ InitLost
    /\ [][NextRecover]_vars
    /\ WF_vars(\E p \in DOMAIN call : Returned(p))
    /\ SF_vars(Reopen)
    /\ SF_vars(ReopenOk)

\* SpecFair: NumCalls callers call command() concurrently from the call sites
\* of StageSites; frames arrive or not, the connection is lost and reopened.
\* The event loop runs whatever is ready: the timeout of asyncio.wait_for
\* fires while its future is pending, a coroutine whose future was resolved or
\* cancelled runs again, the first waiter of the free lock gets it, and the
\* caller of a call that ended takes its outcome.
NextFair ==
    \/ \E p \in DOMAIN call, a \in StageSites : Command(p, a)
    \/ \E p \in DOMAIN call : LockGranted(p)
    \/ \E p \in DOMAIN call : Returned(p)
    \/ \E p \in DOMAIN call : Timeout(p)
    \/ \E p \in DOMAIN call : Resume(p)
    \/ \E f \in Frames, cbRaises \in BOOLEAN : DataReceived(f, cbRaises)
    \/ ConnectionLost(FALSE)
    \/ Reopen
    \/ ReopenOk

Progress ==
    \E p \in DOMAIN call :
       Timeout(p) \/ Resume(p) \/ LockGranted(p) \/ Returned(p)

SpecFair == InitConcurrent /\ [][NextFair]_vars /\ WF_vars(Progress)

\* SpecSqn: one caller issues raw_aps_data_request one call after the other,
\* with every value of expect_reply and of the address; the radio numbers
\* the requests with more than one sqn, so that the confirmations of an
\* earlier request can arrive during a later one.
WideSqns == 1 .. (MaxSqn + 1)

RawSites ==
    {Args(SEND_RAW_APS_DATA_PACKET, TRUE, None, wfd, wfa) :
        wfd \in BOOLEAN, wfa \in BOOLEAN}

RawFrames ==
    {[id |-> STATUS, d0 |-> s, d2 |-> SEND_RAW_APS_DATA_PACKET, d3 |-> 1,
      d4 |-> q] : s \in {SUCCESS, HARD_ERROR}, q \in WideSqns}
    \cup
    {[id |-> APS_DATA_CONFIRM, d0 |-> SUCCESS, d2 |-> 0, d3 |-> 0, d4 |-> q] :
        q \in WideSqns}
    \cup
    {[id |-> APS_DATA_CONFIRM_FAILED, d0 |-> HARD_ERROR, d2 |-> 0, d3 |-> 0,
      d4 |-> q] : q \in WideSqns}
    \cup
    {[id |-> ACK_DATA, d0 |-> SUCCESS, d2 |-> 0, d3 |-> 0, d4 |-> q] :
        q \in WideSqns}

InitSqn ==
    /\ uart = TRUE
    /\ app = TRUE
    /\ awaiting = [r \in WaitResponses |-> NoCall]
    /\ status_awaiting = [c \in Cmds |-> NoCall]
    /\ status_datasent_awaiting = [q \in WideSqns |-> AbsentFut]
    /\ status_ack_awaiting = [q \in WideSqns |-> AbsentFut]
    /\ lock = NoCall
    /\ lock_waiters = <<>>
    /\ call = [p \in {1} |-> IdleCall]
    /\ conn_lost_task = NoTask
    /\ superseded = <<>>
    /\ close_called = FALSE
    /\ pending = {}
    /\ request = NoRequest

NextSqn ==
    \/ \E p \in DOMAIN call, a \in RawSites : Command(p, a)
    \/ \E p \in DOMAIN call : Returned(p)
    \/ \E p \in DOMAIN call : Timeout(p)
    \/ \E p \in DOMAIN call : Resume(p)
    \/ \E f \in RawFrames : DataReceived(f, FALSE)

SpecSqn == InitSqn /\ [][NextSqn]_vars

\* ---- ControllerApplication._request (application.py) ------------------------
\* the values of v[1], the field of the returned frame that _request uses as
\* the id of the request
ReqIds == 1 .. MaxReqId

RequestFromMutant(c, id, pend) ==
    IF c.error \in {"NoResponseError", "NoStatusError"}
    THEN [ret |-> [pc |-> "returned", status |-> 1, req_id |-> 0],
          pending |-> pend]
    ELSE IF c.error # "none"
    THEN [ret |-> [pc |-> "raised", status |-> 0, req_id |-> 0],
          pending |-> pend]
    ELSE IF c.result.d0 # 0
    THEN [ret |-> [pc |-> "returned", status |-> c.result.d0, req_id |-> id],
          pending |-> pend \cup {id}]
    ELSE [ret |-> [pc |-> "returned", status |-> 0, req_id |-> id],
          pending |-> pend \cup {id}]
\* application.py lines 240-260: what _request does with the outcome of
\* raw_aps_data_request, the ended call c of command(): NoStatusError is a
\* NoResponseError and is caught, another exception leaves _request; the
\* entry of the request is stored (line 246) and popped again when the
\* frame's status is not 0 (lines 248-250)
RequestFrom(c, id, pend) ==
    IF c.error \in {"NoResponseError", "NoStatusError"}
    THEN [ret |-> [pc |-> "returned", status |-> 1, req_id |-> 0],
          pending |-> pend]
    ELSE IF c.error # "none"
    THEN [ret |-> [pc |-> "raised", status |-> 0, req_id |-> 0],
          pending |-> pend]
    ELSE IF c.result.d0 # 0
    THEN [ret |-> [pc |-> "returned", status |-> c.result.d0, req_id |-> id],
          pending |-> pend \ {id}]
    ELSE [ret |-> [pc |-> "returned", status |-> 0, req_id |-> id],
          pending |-> pend \cup {id}]

\* _request runs again when its call of raw_aps_data_request has ended
Request(p, id) ==
    /\ call[p].pc = "done"
    /\ call' = [call EXCEPT ![p] = IdleCall]
    /\ awaiting' = Orphaned(awaiting, p)
    /\ status_awaiting' = Orphaned(status_awaiting, p)
    /\ pending' = RequestFrom(call[p], id, pending).pending
    /\ request' = RequestFrom(call[p], id, pending).ret
    /\ UNCHANGED <<uart, app, status_datasent_awaiting, status_ack_awaiting,
                   lock, lock_waiters, conn_lost_task, superseded,
                   close_called>>

\* SpecRequest: the application sends one request after the other through
\* _request, with every value of expect_reply and of the address; frames
\* arrive, stage timeouts fire, the connection is lost and reopened.  The
\* radio gives every request the same sqn: which one makes no difference to
\* _request, which reads the fields v[0] and v[1] only.
RequestFrames ==
    {f \in StatusFrames \cup ConfirmFrames \cup AckFrames :
        /\ f.id = STATUS => f.d2 = SEND_RAW_APS_DATA_PACKET
        /\ f.d4 \in {0, 1}}

NextRequest ==
    \/ \E p \in DOMAIN call, a \in RawSites : Command(p, a)
    \/ \E p \in DOMAIN call, id \in ReqIds : Request(p, id)
    \/ \E p \in DOMAIN call : Timeout(p)
    \/ \E p \in DOMAIN call : Resume(p)
    \/ \E f \in RequestFrames : DataReceived(f, FALSE)
    \/ ConnectionLost(FALSE)
    \/ Reopen
    \/ ReopenOk

SpecRequest == Init /\ [][NextRequest]_vars

\* ---- properties -------------------------------------------------------------
AwaitingStatus(p) ==
    call[p].pc = "status" /\ call[p].status_fut.st = "pending"

Ended(p, err) == call[p].pc = "done" /\ call[p].error = err

\* C1: under any interleaving of concurrent command() calls and frame arrivals
\* at most one call is between acquiring and releasing the lock, and it is
\* the lock's holder; no two calls wait for the status of the same command
\* id; while a call awaits its status the status table holds exactly its
\* waiter for that command id; a call queued on the lock has registered no
\* status waiter: every status waiter belongs to the holder of the lock.
C1Theorem ==
    /\ Cardinality({p \in DOMAIN call : Suspended(p)}) <= 1
    /\ \A p \in DOMAIN call : Suspended(p) => lock = p
    /\ \A p, q \in DOMAIN call :
          (call[p].pc = "status" /\ call[q].pc = "status"
             /\ call[p].cmd = call[q].cmd) => p = q
    /\ \A p \in DOMAIN call :
          AwaitingStatus(p) =>
             /\ status_awaiting[call[p].cmd] = p
             /\ \A c \in Cmds : status_awaiting[c] # NoCall => c = call[p].cmd
    /\ \A c \in Cmds :
          status_awaiting[c] \in DOMAIN call =>
             /\ lock = status_awaiting[c]
             /\ call[status_awaiting[c]].pc # "queued"

\* a call awaits its status while a second call for the same command id is
\* queued on the lock
C1Witness ==
    \E p, q \in DOMAIN call :
       /\ AwaitingStatus(p)
       /\ call[q].pc = "queued"
       /\ call[q].wait_status
       /\ call[q].cmd = call[p].cmd
       /\ status_awaiting[call[p].cmd] = p

C3Original ==
    uart =>
       \A f \in StatusFrames :
          f.d3 # 0 =>
             /\ Dispatch(f, FALSE).ds[f.d4].st # "absent"
             /\ Dispatch(f, FALSE).ack[f.d4].st # "absent"

\* C3 (amended): after a status frame with a sqn is dispatched while a status
\* waiter is registered for the command id it names, the data-sent and the
\* ack table each hold a new waiter for that sqn, whatever the call asked
\* for and whether or not the status waiter could still be resolved.
C3Theorem ==
    uart =>
       \A f \in StatusFrames, cbRaises \in BOOLEAN :
          (f.d3 # 0 /\ status_awaiting[f.d2] # NoCall) =>
             /\ Dispatch(f, cbRaises).ds[f.d4] = PendingFut
             /\ Dispatch(f, cbRaises).ack[f.d4] = PendingFut

\* the status waiter of a call that asked for neither stage was just resolved
\* by a frame with a sqn, and both waiters exist for it
C3Witness ==
    \E p \in DOMAIN call :
       /\ call[p].pc = "status"
       /\ call[p].status_fut.st = "done"
       /\ ~call[p].wait_for_datasent
       /\ ~call[p].wait_for_ack
       /\ call[p].status_fut.res.d3 # 0
       /\ status_datasent_awaiting[call[p].status_fut.res.d4] = PendingFut
       /\ status_ack_awaiting[call[p].status_fut.res.d4] = PendingFut

\* C4 as stated: when a frame is delivered twice in a row, the second
\* delivery resolves nothing, changes no waiter table and raises nothing.
C4Original ==
    uart =>
       \A f \in Frames :
          LET first == Dispatch(f, FALSE)
              second == DispatchFrom(f, FALSE, first)
          IN /\ second.resolved = 0
             /\ ~second.raised
             /\ <<second.aw, second.st, second.ds, second.ack>>
                   = <<first.aw, first.st, first.ds, first.ack>>

\* C5 as stated: no delivery lets an error leave data_received.
C5Original ==
    uart =>
       \A f \in Frames, cbRaises \in BOOLEAN : ~Dispatch(f, cbRaises).raised

\* C6 as stated: every delivery of a frame of the catalog calls the
\* application callback exactly once.
C6Original ==
    (uart /\ app) =>
       \A f \in Frames, cbRaises \in BOOLEAN :
          f.id \in RESPONSES => Dispatch(f, cbRaises).forwarded = 1

\* C7: a call of command() that gets the lock while no transport is held
\* ends at once with the not-running error: nothing is sent, the four tables
\* are as before, and the lock is free.
C7Theorem ==
    [][\A p \in DOMAIN call :
          (~uart /\ call[p].pc \in {"idle", "queued"}
             /\ call'[p].pc \notin {"idle", "queued"}) =>
             /\ call'[p].pc = "done"
             /\ call'[p].error = "CommandError"
             /\ call'[p].sent = 0
             /\ tables' = tables
             /\ lock' = NoCall]_vars

\* the connection was lost, the reconnect loop is running, and a call has
\* ended with the not-running error
C7Witness ==
    \E p \in DOMAIN call :
       /\ Ended(p, "CommandError")
       /\ ~uart
       /\ TaskActive
       /\ call[p].sent = 0
       /\ lock = NoCall

\* C8: a call that has ended, normally or with the no-status, no-response or
\* not-running error, has released the lock exactly once; a call in progress
\* has not released it; the lock is held only by a call in progress, so it is
\* free whenever no call is in progress.
C8Theorem ==
    /\ \A p \in DOMAIN call :
          /\ call[p].pc = "done" => call[p].released = 1
          /\ call[p].pc # "done" => call[p].released = 0
    /\ lock # NoCall => (lock \in DOMAIN call /\ Suspended(lock))
    /\ (\A p \in DOMAIN call : call[p].pc \in {"idle", "done"}) => lock = NoCall

\* a call has ended with the no-response error and the lock is free
C8Witness ==
    \E p \in DOMAIN call :
       /\ Ended(p, "NoResponseError")
       /\ call[p].released = 1
       /\ lock = NoCall

\* the wait before the k-th retry
ExpectedWait(k) ==
    CASE k = 1 -> 2 [] k = 2 -> 4 [] k = 3 -> 8 [] k = 4 -> 16 [] OTHER -> 32

\* C9: after the k-th failed reopen attempt the loop sleeps ExpectedWait(k)
\* (2, 4, 8, 16, 32, 32, ...), which is at least the previous wait and at
\* most 2^5; a failed attempt leaves the loop running, and the loop stops
\* only in a step in which a reopen attempt succeeds and installs the
\* transport.
C9Theorem ==
    [][/\ conn_lost_task'.pc = "sleeping" =>
             /\ conn_lost_task'.wait = ExpectedWait(conn_lost_task'.attempt - 1)
             /\ conn_lost_task'.wait >= conn_lost_task'.prev
             /\ conn_lost_task'.wait <= 32
       /\ (conn_lost_task.pc = "connecting"
             /\ conn_lost_task'.attempt = conn_lost_task.attempt + 1) =>
             conn_lost_task'.pc = "sleeping"
       /\ (TaskActive /\ ~TaskActive') =>
             (conn_lost_task.pc = "connecting" /\ uart')]_vars

\* the loop sleeps 32 for the second time, after its sixth failure
C9Witness ==
    /\ conn_lost_task.pc = "sleeping"
    /\ conn_lost_task.attempt = 7
    /\ conn_lost_task.wait = 32
    /\ conn_lost_task.prev = 32

\* C10: a call with wait_status only whose status frame has status 0 and no
\* sqn returns that frame after exactly one send; the data-sent and the ack
\* table have the keys they had when the call began, and the status table is
\* empty.
C10Theorem ==
    \A p \in DOMAIN call :
       (/\ call[p].pc = "done"
        /\ call[p].wait_status
        /\ call[p].wait_response = None
        /\ ~call[p].wait_for_datasent
        /\ ~call[p].wait_for_ack
        /\ call[p].status_fut.st = "done"
        /\ call[p].status_fut.res.d0 = SUCCESS
        /\ call[p].status_fut.res.d3 = 0) =>
          /\ call[p].error = "none"
          /\ call[p].result = call[p].status_fut.res
          /\ call[p].result.d2 = call[p].cmd
          /\ call[p].sent = 1
          /\ Keys(status_datasent_awaiting) = call[p].ds0
          /\ Keys(status_ack_awaiting) = call[p].ack0
          /\ \A c \in Cmds : status_awaiting[c] = NoCall

\* remove_device has returned the status frame that reports success without
\* a sqn
C10Witness ==
    \E p \in DOMAIN call :
       /\ call[p].pc = "done"
       /\ call[p].cmd = NETWORK_REMOVE_DEVICE
       /\ call[p].error = "none"
       /\ call[p].result.id = STATUS
       /\ call[p].result.d0 = SUCCESS
       /\ call[p].result.d3 = 0
       /\ call[p].sent = 1

\* a call whose status waiter was resolved by a status frame with a sqn and
\* which has not ended
StatusWithSqn(p) ==
    /\ call[p].pc \in {"status", "datasent", "ack"}
    /\ call[p].status_fut.st = "done"
    /\ call[p].status_fut.res.d3 # 0

\* C11 as stated: once a status frame with sqn s has resolved the status
\* waiter of a call, the first ack frame for s that arrives while the call
\* has not passed its ack stage, and the first data-sent confirmation for s
\* that arrives while the call has not passed its data-sent stage, is stored
\* in the waiter of s and forwarded to the application callback, whenever it
\* arrives.
C11Original ==
    (uart /\ app) =>
       \A p \in DOMAIN call :
          StatusWithSqn(p) =>
             LET s == call[p].status_fut.res.d4
             IN /\ (call[p].wait_for_ack
                      /\ status_ack_awaiting[s].st # "done") =>
                     \A f \in AckFrames :
                        f.d4 = s =>
                           /\ Dispatch(f, FALSE).ack[s] = DoneFut(f)
                           /\ Dispatch(f, FALSE).forwarded = 1
                /\ (call[p].wait_for_datasent
                      /\ call[p].pc \in {"status", "datasent"}
                      /\ status_datasent_awaiting[s].st # "done") =>
                     \A f \in ConfirmFrames :
                        f.d4 = s =>
                           /\ Dispatch(f, FALSE).ds[s] = DoneFut(f)
                           /\ Dispatch(f, FALSE).forwarded = 1

C13Theorem ==
    [][\A p \in DOMAIN call :
          (call[p].pc # "done" /\ call'[p].pc = "done") =>
             /\ call'[p].error \in
                   {"none", "NoStatusError", "NoResponseError", "CommandError"}
             /\ call'[p].error = "NoStatusError" <=>
                   (call[p].pc \in {"status", "datasent", "ack"}
                      /\ AwaitedFut(p).st = "cancelled")
             /\ call'[p].error = "NoResponseError" <=>
                   (call[p].pc = "response" /\ AwaitedFut(p).st = "cancelled")
             /\ call'[p].error = "CommandError" <=>
                   (call[p].pc \in {"idle", "queued"} /\ ~uart)]_vars

\* the status of version() arrived, the wait for the version list timed out
\* and the call ended with the no-response error
C13Witness ==
    \E p \in DOMAIN call :
       /\ Ended(p, "NoResponseError")
       /\ call[p].status_fut.st = "done"
       /\ call[p].response_fut.st = "cancelled"
       /\ call[p].tries = 0

\* C14: when the status frame of a call carries a status other than success
\* (the hard-error code 0xA3 included), the next step of the call is its
\* end: it raises nothing and returns that status frame after its one send,
\* with the lock released, and has awaited neither the data-sent, nor the
\* ack, nor the named-response stage.
C14Theorem ==
    [][\A p \in DOMAIN call :
          (/\ call[p].pc = "status"
           /\ call[p].status_fut.st = "done"
           /\ call[p].status_fut.res.d0 # SUCCESS
           /\ call'[p].pc # "status") =>
             /\ call'[p].pc = "done"
             /\ call'[p].error = "none"
             /\ call'[p].result = call[p].status_fut.res
             /\ call'[p].sent = 1
             /\ lock' = NoCall]_vars

\* version() has returned the status frame that reports the hard error; the
\* wait for the version list was skipped and its waiter is still registered
C14Witness ==
    \E p \in DOMAIN call :
       /\ call[p].pc = "done"
       /\ call[p].error = "none"
       /\ call[p].wait_response = VERSION_LIST
       /\ call[p].result.id = STATUS
       /\ call[p].result.d0 = HARD_ERROR
       /\ call[p].response_fut.st = "pending"

C16Original ==
    /\ \A q \in Sqns :
          /\ status_datasent_awaiting[q].st # "done"
          /\ status_ack_awaiting[q].st # "done"
    /\ \A c \in Cmds :
          status_awaiting[c] \in DOMAIN call =>
             call[status_awaiting[c]].status_fut.st # "done"
    /\ \A r \in WaitResponses :
          awaiting[r] \in DOMAIN call =>
             call[awaiting[r]].response_fut.st # "done"

\* a call that asked for the ack stage has ended without an error after its
\* status frame reported success with a sqn
AckRequested(p) ==
    /\ call[p].pc = "done"
    /\ call[p].error = "none"
    /\ call[p].wait_for_ack
    /\ call[p].status_fut.st = "done"
    /\ call[p].status_fut.res.d0 = SUCCESS
    /\ call[p].status_fut.res.d3 # 0

\* C17 as stated: such a call has awaited the ack waiter, so what it returns
\* is the ack frame, whatever the data-sent confirmation carried.
C17Original ==
    \A p \in DOMAIN call : AckRequested(p) => call[p].result.id = ACK_DATA

\* C17 (amended): such a call returns the ack frame of the sqn, except when it
\* also asked for the data-sent stage and the confirmation carried a status
\* other than success: then it returns the confirmation and has not awaited
\* the ack.
C17Theorem ==
    \A p \in DOMAIN call :
       AckRequested(p) =>
          \/ /\ call[p].result.id = ACK_DATA
             /\ call[p].result.d4 = call[p].status_fut.res.d4
          \/ /\ call[p].wait_for_datasent
             /\ call[p].result.id \in {APS_DATA_CONFIRM, APS_DATA_CONFIRM_FAILED}
             /\ call[p].result.d0 # SUCCESS

\* a call with both stages has returned the ack frame
C17Witness ==
    \E p \in DOMAIN call :
       /\ AckRequested(p)
       /\ call[p].wait_for_datasent
       /\ call[p].result.id = ACK_DATA

\* the reconnect loops that are running: the task of the last loss, and
\* every replaced task that was not cancelled
ActiveLoops ==
    (IF TaskActive THEN 1 ELSE 0)
    + Cardinality({i \in 1 .. Len(superseded) : ~superseded[i].cancelled})

\* C18: at most one reconnect loop is running in every state.  Every
\* connection_lost leaves no transport and one new loop at its first
\* attempt, and when the previous loop had not finished it is cancelled, and
\* not otherwise touched.  The step in which a cancelled loop runs again
\* starts no reopen attempt, installs no transport and changes nothing else.
C18Theorem ==
    /\ [](ActiveLoops <= 1)
    /\ [][/\ (conn_lost_task' # conn_lost_task /\ conn_lost_task'.pc = "start") =>
                /\ ~uart'
                /\ conn_lost_task'.attempt = 1
                /\ TaskActive =>
                      /\ Len(superseded') = Len(superseded) + 1
                      /\ superseded'[Len(superseded')] =
                            [pc |-> conn_lost_task.pc, cancelled |-> TRUE]
                /\ ~TaskActive => superseded' = superseded
          /\ Len(superseded') < Len(superseded) =>
                /\ Head(superseded).cancelled
                /\ uart' = uart
                /\ conn_lost_task' = conn_lost_task
                /\ tables' = tables
                /\ call' = call
                /\ lock' = lock]_vars

\* a loss was reported while the loop of the previous loss was opening the
\* transport: that loop is cancelled and has not run again, the new loop has
\* not made its first attempt
C18Witness ==
    /\ superseded # <<>>
    /\ Head(superseded) = [pc |-> "connecting", cancelled |-> TRUE]
    /\ conn_lost_task.pc = "start"
    /\ ~uart

\* C19: while a reconnect loop runs and no further loss is reported, the
\* engine comes to hold a transport again with the loop stopped; a loop never
\* runs while a transport is held; and a call of command() that begins while
\* a transport is held is sent and does not fail with the not-running error.
C19Theorem ==
    /\ TaskActive ~> (uart /\ ~TaskActive)
    /\ [](uart => ~TaskActive)
    /\ [][\A p \in DOMAIN call :
             (uart /\ call[p].pc = "idle" /\ call'[p].pc # "idle") =>
                /\ call'[p].sent = 1
                /\ call'[p].error # "CommandError"]_vars

\* the loop has reopened the transport and stopped, and a call issued on the
\* new transport was sent and awaits its status
C19Witness ==
    /\ uart
    /\ conn_lost_task = NoTask
    /\ \E p \in DOMAIN call : AwaitingStatus(p) /\ call[p].sent = 1

\* C20: the dispatch of a frame whose identifier is not in the catalog
\* resolves nothing, raises nothing, leaves the four tables and every call's
\* futures as they are and does not call the application callback.
C20Theorem ==
    uart =>
       \A f \in Frames, cbRaises \in BOOLEAN :
          f.id \notin RESPONSES =>
             LET d == Dispatch(f, cbRaises)
             IN /\ d.resolved = 0
                /\ ~d.raised
                /\ d.forwarded = 0
                /\ <<d.aw, d.st, d.ds, d.ack>> = tables
                /\ d.cl = call

\* a callback is registered and version() awaits its status with both its
\* waiters registered; a frame with an unknown identifier is not forwarded
C20Witness ==
    /\ uart
    /\ app
    /\ \E p \in DOMAIN call :
          /\ AwaitingStatus(p)
          /\ status_awaiting[call[p].cmd] = p
          /\ awaiting[VERSION_LIST] = p
    /\ \E f \in Frames :
          /\ f.id = UNKNOWN_ID
          /\ Dispatch(f, FALSE).forwarded = 0

\* the dispatch of frame f on the tables and calls of d finds no waiter: it
\* resolves nothing, raises nothing, leaves the four tables and every call as
\* they are, and calls the application callback
IgnoredIn(f, d) ==
    /\ DispatchFrom(f, FALSE, d).resolved = 0
    /\ ~DispatchFrom(f, FALSE, d).raised
    /\ DispatchFrom(f, FALSE, d).aw = d.aw
    /\ DispatchFrom(f, FALSE, d).st = d.st
    /\ DispatchFrom(f, FALSE, d).ds = d.ds
    /\ DispatchFrom(f, FALSE, d).ack = d.ack
    /\ DispatchFrom(f, FALSE, d).cl = d.cl
    /\ app => DispatchFrom(f, FALSE, d).forwarded = 1

\* the tables and calls once the caller of the ended call p has taken its
\* outcome and has called command() again, from call site a
LaterCommand(p, a) ==
    [st |-> Acquired(p, NewCall(a)).st, aw |-> Acquired(p, NewCall(a)).aw,
     ds |-> Acquired(p, NewCall(a)).ds, ack |-> Acquired(p, NewCall(a)).ack,
     cl |-> [call EXCEPT ![p] = Acquired(p, NewCall(a)).c],
     resolved |-> 0, raised |-> FALSE, forwarded |-> 0]

\* the wait of the data-sent stage of call p timed out and the call has ended
DatasentTimedOut(p) ==
    /\ Ended(p, "NoStatusError")
    /\ call[p].status_fut.st = "done"
    /\ call[p].wait_for_datasent
    /\ call[p].result.id = STATUS

\* the wait of the ack stage of call p timed out and the call has ended
AckTimedOut(p) ==
    /\ Ended(p, "NoStatusError")
    /\ call[p].status_fut.st = "done"
    /\ ~DatasentTimedOut(p)

\* the frames that a stage of the ended call p waited for until its timeout
LateFrames(p) ==
    IF Ended(p, "NoStatusError") /\ call[p].status_fut.st = "cancelled"
    THEN {f \in StatusFrames : f.d2 = call[p].cmd}
    ELSE IF DatasentTimedOut(p)
    THEN {f \in ConfirmFrames : f.d4 = call[p].sqn}
    ELSE IF AckTimedOut(p)
    THEN {f \in AckFrames : f.d4 = call[p].sqn}
    ELSE IF Ended(p, "NoResponseError")
    THEN {f \in OtherFrames : f.id = call[p].wait_response}
    ELSE {}

\* C21 as stated: once the timeout of a stage has ended a call and removed
\* the waiter of that stage, the frame the stage waited for (the status frame
\* of the command id, the data-sent confirmation or the ack of the sqn, the
\* named response) is ignored and passed to the application callback, both
\* when it arrives before the next command and when it arrives while a later
\* command is in flight: it resolves nothing, creates no waiter, raises
\* nothing and leaves the later command as it is.
C21Original ==
    uart =>
       \A p \in DOMAIN call :
          \A f \in LateFrames(p) :
             /\ IgnoredIn(f, Current)
             /\ \A a \in CallSites : IgnoredIn(f, LaterCommand(p, a))

\* C22: every call of command() that has begun, whether it waits for the lock
\* or for a waiter, ends with a result or an error, whatever frames arrive
\* and however often the connection is lost, when the timeout of each stage
\* fires and the lock is granted to the calls queued on it.
C22Theorem ==
    \A p \in Calls : (call[p].pc # "idle") ~> (call[p].pc = "done")

\* the connection is lost; the wait of a stage of one call timed out and the
\* call has ended with the no-status error and released the lock, for which
\* another call is queued
C22Witness ==
    \E p, q \in DOMAIN call :
       /\ Ended(p, "NoStatusError")
       /\ call[q].pc = "queued"
       /\ ~uart
       /\ lock = NoCall
       /\ lock_waiters = <<q>>

\* C23: the frame that completes the data-sent or the ack stage of a call
\* carries the sqn of the status frame that resolved the status waiter of
\* that call, and a call whose status frame carried no sqn has no such
\* stage.  While a call with the sqn s of its status frame is in flight, a
\* data-sent confirmation or ack with another sqn resolves no waiter of s
\* and leaves the call as it is.
C23Theorem ==
    /\ [](\A p \in DOMAIN call :
            /\ call[p].result.id \in
                  {APS_DATA_CONFIRM, APS_DATA_CONFIRM_FAILED, ACK_DATA} =>
                  /\ call[p].status_fut.st = "done"
                  /\ call[p].status_fut.res.d3 # 0
                  /\ call[p].result.d4 = call[p].status_fut.res.d4
            /\ (uart /\ StatusWithSqn(p)) =>
                  \A f \in RawFrames :
                     (f.id # STATUS /\ f.d4 # call[p].status_fut.res.d4) =>
                        /\ Dispatch(f, FALSE).ds[call[p].status_fut.res.d4] =
                              status_datasent_awaiting[call[p].status_fut.res.d4]
                        /\ Dispatch(f, FALSE).ack[call[p].status_fut.res.d4] =
                              status_ack_awaiting[call[p].status_fut.res.d4]
                        /\ Dispatch(f, FALSE).cl[p] = call[p])
    /\ [][\A p \in DOMAIN call :
             (/\ call[p].pc \in {"datasent", "ack"}
              /\ AwaitedFut(p).st = "done"
              /\ call'[p].pc # call[p].pc) =>
                /\ call[p].status_fut.res.d3 # 0
                /\ AwaitedFut(p).res.d4 = call[p].status_fut.res.d4
                /\ call[p].pc = "datasent" =>
                      AwaitedFut(p).res.id \in
                         {APS_DATA_CONFIRM, APS_DATA_CONFIRM_FAILED}
                /\ call[p].pc = "ack" => AwaitedFut(p).res.id = ACK_DATA]_vars

\* a call awaits the data-sent confirmation of the sqn of its status frame
\* while the ack waiter that an earlier call left for another sqn holds the
\* ack that has arrived for it
C23Witness ==
    \E p \in DOMAIN call, t \in WideSqns :
       /\ uart
       /\ call[p].pc = "datasent"
       /\ StatusWithSqn(p)
       /\ t # call[p].status_fut.res.d4
       /\ status_datasent_awaiting[call[p].status_fut.res.d4] = PendingFut
       /\ status_ack_awaiting[t].st = "done"
       /\ status_ack_awaiting[t].res.d4 = t

\* C24 as stated: when a call has ended, with a result or with an error, and
\* no other call is in progress, the status table and the named-response
\* table hold no waiter that the call registered, and the data-sent and the
\* ack table hold no waiter for the sqn of its status frame.
C24Original ==
    \A p \in DOMAIN call :
       (/\ call[p].pc = "done"
        /\ \A q \in DOMAIN call : q # p => call[q].pc = "idle") =>
          /\ \A c \in Cmds : status_awaiting[c] # p
          /\ \A r \in WaitResponses : awaiting[r] # p
          /\ (call[p].status_fut.st = "done"
                /\ call[p].status_fut.res.d3 # 0) =>
                /\ status_datasent_awaiting[call[p].status_fut.res.d4] = AbsentFut
                /\ status_ack_awaiting[call[p].status_fut.res.d4] = AbsentFut

\* C25: whenever a reconnect loop calls connect(), at its first attempt or
\* after its sleep, no transport is held, so the assertion of connect()
\* passes: no loop ever stops at the failed assertion, whatever losses are
\* reported while a loop runs, whichever loops were cancelled and replaced,
\* and whether the reopen attempts failed or succeeded.
C25Theorem ==
    /\ [](conn_lost_task.pc # "failed")
    /\ [][(conn_lost_task.pc \in {"start", "sleeping"}
             /\ conn_lost_task'.pc \notin {"start", "sleeping"}
             /\ conn_lost_task'.attempt = conn_lost_task.attempt) =>
             (~uart /\ ~uart' /\ conn_lost_task'.pc = "connecting")]_vars

\* the loop that replaced a cancelled loop has failed to reopen the transport
\* once and has called connect() for its second attempt
C25Witness ==
    /\ conn_lost_task.pc = "connecting"
    /\ conn_lost_task.attempt = 2
    /\ superseded = <<>>
    /\ ~uart

\* C26 as stated: once close() has been called, no transport is held until
\* connect() is called: no reconnect loop that a connection_lost event
\* started before installs a transport afterwards.
C26Original == close_called => ~uart

\* C27: when the call of raw_aps_data_request has ended, _request returns a
\* value: status 0 exactly when the frame the call returned, the one of the
\* last stage it awaited, has status 0, the status of that frame when it is
\* not 0, and status 1 when the call ended with the no-status or the
\* no-response error; after a status other than 0 the pending table has no
\* entry for the id of the request.
C27Theorem ==
    [][\A p \in DOMAIN call :
          (call[p].pc = "done" /\ call'[p].pc = "idle") =>
             /\ (call[p].error = "none" /\ call[p].result.d0 = 0) =>
                   (request'.pc = "returned" /\ request'.status = 0)
             /\ (call[p].error = "none" /\ call[p].result.d0 # 0) =>
                   /\ request'.pc = "returned"
                   /\ request'.status = call[p].result.d0
                   /\ request'.req_id \notin pending'
             /\ call[p].error \in {"NoStatusError", "NoResponseError"} =>
                   (request'.pc = "returned" /\ request'.status = 1)
             /\ (request'.pc = "returned" /\ request'.status = 0) =>
                   (call[p].error = "none" /\ call[p].result.d0 = 0)]_vars

\* _request has returned the failure status of the radio's frame and has
\* removed the entry of its request, while the entry of an earlier request
\* that was sent is in the table
C27Witness ==
    /\ request.pc = "returned"
    /\ request.status = HARD_ERROR
    /\ request.req_id \in ReqIds
    /\ request.req_id \notin pending
    /\ pending # {}

====
